---------------------------- MODULE Spec2Model ----------------------------
(***************************************************************************)
(* Model of src/app.py: the agar-like game server.                         *)
(*                                                                         *)
(* Numbers.  The program computes with Python floats.  Here every length   *)
(* (coordinate, size, speed) is a fixed-point integer counting 1/Unit of a *)
(* map unit, so 1.6 (the growth from one pellet) is 16.  Comparisons that  *)
(* the program makes on square roots and on products with 1.1, 0.8 and 1/3 *)
(* are made exactly, on the squared and cross-multiplied integers.         *)
(*                                                                         *)
(* Scheduling.  The server runs under eventlet: the handlers and the game  *)
(* loop are green threads, and a green thread runs until it yields.  The   *)
(* game loop yields in socketio.sleep and (possibly) in socketio.emit; the *)
(* model lets a handler run at each of these points.                       *)
(***************************************************************************)
EXTENDS Integers, Sequences, FiniteSets, TLC

\* ------------------------------------------------------------ settings
Unit == 10                    \* fixed-point resolution: tenths of a map unit
MAP_WIDTH == 2000
MAP_HEIGHT == 2000
INITIAL_PLAYER_SIZE == 20
FOOD_COUNT == 2               \* 150 in the source; scaled down for checking
FOOD_SIZE == 8
PLAYER_SPEED_FACTOR == 8
EatRatioNum == 11             \* EAT_RATIO = 1.1 = EatRatioNum / EatRatioDen
EatRatioDen == 10
NAME_LIMIT == 15              \* the slice [:15] of handle_join

\* ------------------------------------------------------------ bounds
MaxTicks == 1                 \* iterations of the game loop in a run
MaxCmds == 3                  \* commands (join, player_move, disconnect) handled in a run
ArenaCmds == 1                \* commands handled in a run that starts with a game under way
LogTerms == 12                \* terms of the series used for log1p
LogScale == 10000             \* fixed-point scale inside Log1p

Sids == {"a", "b", "c"}       \* session ids (request.sid)
NoSid == "none"

Blob == <<"B", "l", "o", "b">>
LongName == <<"n", "a", "m", "e", "0", "1", "2", "3", "4", "5", "6", "7", "8", "9", "x", "y">>

\* The payloads of 'join' the model tries for each session, each with the
\* values the handler's random.uniform and random.randint calls return.
JoinInputs(sid) ==
    CASE sid = "a" -> { [has_name |-> FALSE, name |-> <<>>, x |-> 20 * Unit, y |-> 20 * Unit, hue |-> 0] }
      [] sid = "b" -> { [has_name |-> TRUE, name |-> LongName, x |-> 22 * Unit, y |-> 20 * Unit, hue |-> 120] }
      [] OTHER     -> { [has_name |-> TRUE, name |-> <<>>, x |-> 25 * Unit, y |-> 20 * Unit, hue |-> 360] }

\* The payloads of 'player_move' the model tries.
MoveInputs ==
    { [x |-> -10, y |-> 0], [x |-> 3, y |-> 4] }

\* The pellets generate_food may draw (id, position and colour are random).
PelletChoices ==
    { [id |-> 10000, x |-> 20 * Unit, y |-> 20 * Unit, size |-> FOOD_SIZE * Unit, color |-> 0],
      [id |-> 99999, x |-> 275,       y |-> 20 * Unit, size |-> FOOD_SIZE * Unit, color |-> 360] }

VARIABLES
    players,              \* the dict players, in insertion order
    food,                 \* the list food
    pc,                   \* where the game loop stands
    players_to_remove,    \* the loop's local set of this tick
    food_eaten_indices,   \* the loop's local set of this tick
    remaining,            \* ids the removal loop has not yet reached
    cur,                  \* the id the removal loop is handling
    stage,                \* this tick's food list, and the players as they stood
                          \* after stages 1, 2 and 3
    ate,                  \* the consumptions of this tick ("A ate B")
    out,                  \* the messages the last step emitted
    emitted,              \* per session id, how many of each event went out
    op,                   \* the last operation that ran
    nobj,                 \* player dicts created so far
    ncmd,                 \* commands handled so far
    ticks                 \* iterations of the game loop started so far

vars == <<players, food, pc, players_to_remove, food_eaten_indices, remaining, cur,
          stage, ate, out, emitted, op, nobj, ncmd, ticks>>

\* ------------------------------------------------------------ helpers
Abs(n) == IF n < 0 THEN -n ELSE n
Max(a, b) == IF a > b THEN a ELSE b
Min(a, b) == IF a < b THEN a ELSE b

RECURSIVE SumSizes(_)
SumSizes(ps) == IF ps = <<>> THEN 0 ELSE Head(ps).size + SumSizes(Tail(ps))

Ids(ps) == { ps[i].id : i \in DOMAIN ps }

\* players.get(player_id): the entry, or None (here the empty sequence)
get_player_by_id(ps, sid) == SelectSeq(ps, LAMBDA p : p.id = sid)

\* players.pop(sid, None)
Pop(ps, sid) == SelectSeq(ps, LAMBDA p : p.id # sid)

\* players[sid] = player: a key already present keeps its place in the order
Store(ps, player) ==
    IF player.id \in Ids(ps)
    THEN [i \in DOMAIN ps |-> IF ps[i].id = player.id THEN player ELSE ps[i]]
    ELSE Append(ps, player)

\* get_distance(a, b) < num / den, decided exactly on integers.  The first
\* three conjuncts follow from the last one and keep the products small.
DistLess(a, b, num, den) ==
    LET dx == a.x - b.x
        dy == a.y - b.y
    IN  /\ num > 0
        /\ den * Abs(dx) < num
        /\ den * Abs(dy) < num
        /\ den * den * (dx * dx + dy * dy) < num * num


\* ------------------------------------------------------------ stage 1
\* math.log1p(num / den), times LogScale: ln(1+u) = 2 atanh(u / (2+u)), by
\* the first LogTerms terms of the atanh series.
RECURSIVE AtanhSeries(_, _, _, _)
AtanhSeries(power, z2, k, n) ==
    IF n = 0 THEN 0
    ELSE power \div (2 * k + 1)
         + AtanhSeries((power * z2) \div LogScale, z2, k + 1, n - 1)

Log1p(num, den) ==
    LET z == (num * LogScale) \div (2 * den + num)
    IN  2 * AtanhSeries(z, (z * z) \div LogScale, 0, LogTerms)

\* speed = PLAYER_SPEED_FACTOR / (1 + log1p(size / INITIAL_PLAYER_SIZE))
Speed(size) ==
    (PLAYER_SPEED_FACTOR * Unit * LogScale)
        \div (LogScale + Log1p(size, INITIAL_PLAYER_SIZE * Unit))

\* math.sqrt on the integers: the largest r with r * r <= n
RECURSIVE SqrtFrom(_, _)
SqrtFrom(n, r) == IF (r + 1) * (r + 1) > n THEN r ELSE SqrtFrom(n, r + 1)
Sqrt(n) == SqrtFrom(n, 0)

Clamp(lo, hi, v) == Max(lo, Min(hi, v))

\* One player's movement and clamping.  The clamp uses the size the player
\* has now, at stage 1.
MovePlayer(p) ==
    LET sq == p.target_x * p.target_x + p.target_y * p.target_y
        distance_to_target == Sqrt(sq)
        moving == sq > 1
        speed == Speed(p.size)
        step_x == IF moving THEN (p.target_x * speed) \div distance_to_target ELSE 0
        step_y == IF moving THEN (p.target_y * speed) \div distance_to_target ELSE 0
    IN  [p EXCEPT !.x = Clamp(p.size \div 2, MAP_WIDTH * Unit - p.size \div 2, p.x + step_x),
                  !.y = Clamp(p.size \div 2, MAP_HEIGHT * Unit - p.size \div 2, p.y + step_y)]

MoveStage(ps) == [i \in DOMAIN ps |-> MovePlayer(ps[i])]

\* ------------------------------------------------------------ stage 2
\* dist < player_radius - f['size'] / 3, with everything times 6
InReach(player_radius2, p, f) == DistLess(p, f, 3 * player_radius2 - 2 * f.size, 6)

\* f['size'] * 0.2
FoodGain(f) == (f.size * 2) \div 10

\* the inner loop without the test "if i in food_eaten_indices: continue"
RECURSIVE EatFoodNoCheck(_, _, _, _, _)
EatFoodNoCheck(p, player_radius2, fd, i, eaten) ==
    IF i > Len(fd) THEN [player |-> p, eaten |-> eaten]
    ELSE IF InReach(player_radius2, p, fd[i])
         THEN EatFoodNoCheck([p EXCEPT !.size = @ + FoodGain(fd[i])], player_radius2, fd,
                             i + 1, eaten \cup {i})
         ELSE EatFoodNoCheck(p, player_radius2, fd, i + 1, eaten)

\* the inner loop with the reach taken from the player's size as it grows
RECURSIVE EatFoodGrowingReach(_, _, _, _, _)
EatFoodGrowingReach(p, player_radius2, fd, i, eaten) ==
    IF i > Len(fd) THEN [player |-> p, eaten |-> eaten]
    ELSE IF i \in eaten THEN EatFoodGrowingReach(p, player_radius2, fd, i + 1, eaten)
    ELSE IF InReach(p.size, p, fd[i])
         THEN EatFoodGrowingReach([p EXCEPT !.size = @ + FoodGain(fd[i])], player_radius2, fd,
                                  i + 1, eaten \cup {i})
         ELSE EatFoodGrowingReach(p, player_radius2, fd, i + 1, eaten)

\* The inner loop for one player: player_radius (here twice the radius, the
\* size) is read once, before the loop.  Indices count from 1.
RECURSIVE EatFood(_, _, _, _, _)
EatFood(p, player_radius2, fd, i, eaten) ==
    IF i > Len(fd) THEN [player |-> p, eaten |-> eaten]
    ELSE IF i \in eaten THEN EatFood(p, player_radius2, fd, i + 1, eaten)
    ELSE IF InReach(player_radius2, p, fd[i])
         THEN EatFood([p EXCEPT !.size = @ + FoodGain(fd[i])], player_radius2, fd,
                      i + 1, eaten \cup {i})
         ELSE EatFood(p, player_radius2, fd, i + 1, eaten)

\* The outer loop, over the players in the order of the dict.
RECURSIVE FoodLoop(_, _, _, _)
FoodLoop(ps, fd, k, eaten) ==
    IF k > Len(ps) THEN [players |-> ps, eaten |-> eaten]
    ELSE LET r == EatFood(ps[k], ps[k].size, fd, 1, eaten)
         IN  FoodLoop([ps EXCEPT ![k] = r.player], fd, k + 1, r.eaten)

FoodStage(ps, fd) == FoodLoop(ps, fd, 1, {})

\* ------------------------------------------------------------ stage 3
\* dist < radius_a - radius_b * 0.8, with everything times 10
Engulfs(a, b) == DistLess(a, b, 5 * a.size - 4 * b.size, 10)

\* player_a['size'] > player_b['size'] * EAT_RATIO
Outweighs(a, b) == EatRatioDen * a.size > EatRatioNum * b.size

\* the comparison without the size ratio
CanEatNoRatio(a, b) == Engulfs(a, b)

CanEat(a, b) == Engulfs(a, b) /\ Outweighs(a, b)

\* what "A ate B" records: the two players as they stood at the comparison
Meal(a, b, a_after) ==
    [eater_before |-> a, eaten_before |-> b, eater_after |-> a_after]

\* the consumption that marks B but leaves A's size as it was
GrowNothing(ps, i, j) == ps

\* player_a['size'] += player_b['size'], for the player at index i
Grow(ps, i, j) == [ps EXCEPT ![i].size = @ + ps[j].size]

\* what player i has eaten so far in this pass
RECURSIVE GainedFrom(_, _, _)
GainedFrom(log, obj, k) ==
    IF k > Len(log) THEN 0
    ELSE (IF log[k].eater_before.obj = obj THEN log[k].eaten_before.size ELSE 0)
            + GainedFrom(log, obj, k + 1)

\* player i with the size it had when the pass began
AtPassStart(st, i) ==
    [st.players[i] EXCEPT !.size = @ - GainedFrom(st.log, st.players[i].obj, 1)]

\* the pass with each eater's size read once, when the pass begins
RECURSIVE PairLoopStaleSize(_, _, _)
PairLoopStaleSize(st, i, j) ==
    LET ps == st.players
        n == Len(ps)
    IN  IF i > n THEN st
        ELSE IF ps[i].id \in st.removed THEN PairLoopStaleSize(st, i + 1, i + 2)
        ELSE IF j > n THEN PairLoopStaleSize(st, i + 1, i + 2)
        ELSE IF ps[j].id \in st.removed THEN PairLoopStaleSize(st, i, j + 1)
        ELSE IF CanEat(AtPassStart(st, i), ps[j])
             THEN PairLoopStaleSize([players |-> Grow(ps, i, j),
                                     removed |-> st.removed \cup {ps[j].id},
                                     log |-> Append(st.log, Meal(ps[i], ps[j], Grow(ps, i, j)[i]))],
                                    i, j + 1)
        ELSE IF CanEat(AtPassStart(st, j), ps[i])
             THEN PairLoopStaleSize([players |-> Grow(ps, j, i),
                                     removed |-> st.removed \cup {ps[i].id},
                                     log |-> Append(st.log, Meal(ps[j], ps[i], Grow(ps, j, i)[j]))],
                                    i + 1, i + 2)
        ELSE PairLoopStaleSize(st, i, j + 1)

\* the pass without the tests on players_to_remove and without the break
RECURSIVE PairLoopNoSkip(_, _, _)
PairLoopNoSkip(st, i, j) ==
    LET ps == st.players
        n == Len(ps)
    IN  IF i > n THEN st
        ELSE IF j > n THEN PairLoopNoSkip(st, i + 1, i + 2)
        ELSE IF CanEat(ps[i], ps[j])
             THEN PairLoopNoSkip([players |-> Grow(ps, i, j),
                                  removed |-> st.removed \cup {ps[j].id},
                                  log |-> Append(st.log, Meal(ps[i], ps[j], Grow(ps, i, j)[i]))],
                                 i, j + 1)
        ELSE IF CanEat(ps[j], ps[i])
             THEN PairLoopNoSkip([players |-> Grow(ps, j, i),
                                  removed |-> st.removed \cup {ps[i].id},
                                  log |-> Append(st.log, Meal(ps[j], ps[i], Grow(ps, j, i)[j]))],
                                 i, j + 1)
        ELSE PairLoopNoSkip(st, i, j + 1)

\* The loops over i < j.  st = [players, removed, log].
RECURSIVE PairLoop(_, _, _)
PairLoop(st, i, j) ==
    LET ps == st.players
        n == Len(ps)
    IN  IF i > n THEN st
        ELSE IF ps[i].id \in st.removed THEN PairLoop(st, i + 1, i + 2)
        ELSE IF j > n THEN PairLoop(st, i + 1, i + 2)
        ELSE IF ps[j].id \in st.removed THEN PairLoop(st, i, j + 1)
        ELSE IF CanEat(ps[i], ps[j])
             THEN PairLoop([players |-> Grow(ps, i, j),
                            removed |-> st.removed \cup {ps[j].id},
                            log |-> Append(st.log, Meal(ps[i], ps[j], Grow(ps, i, j)[i]))],
                           i, j + 1)
        ELSE IF CanEat(ps[j], ps[i])
             THEN PairLoop([players |-> Grow(ps, j, i),
                            removed |-> st.removed \cup {ps[i].id},
                            log |-> Append(st.log, Meal(ps[j], ps[i], Grow(ps, j, i)[j]))],
                           i + 1, i + 2)
        ELSE PairLoop(st, i, j + 1)

PlayerStage(ps) == PairLoop([players |-> ps, removed |-> {}, log |-> <<>>], 1, 2)


\* ------------------------------------------------------------ stage 5
\* food[:] = [f for i, f in enumerate(food) if i not in food_eaten_indices]
RECURSIVE KeepFrom(_, _, _)
KeepFrom(fd, eaten, i) ==
    IF i > Len(fd) THEN <<>>
    ELSE (IF i \in eaten THEN <<>> ELSE <<fd[i]>>) \o KeepFrom(fd, eaten, i + 1)

RemoveEaten(fd, eaten) == KeepFrom(fd, eaten, 1)

\* generate_food(): every list the random draws can leave in food
Needed(fd) == FOOD_COUNT - Len(fd)

generate_food(fd) ==
    IF Needed(fd) <= 0 THEN {fd}
    ELSE { fd \o new : new \in [1 .. Needed(fd) -> PelletChoices] }

\* stage 5 without the call of generate_food
RepopulateNoRefill(fd, eaten) ==
    IF eaten # {} THEN {RemoveEaten(fd, eaten)} ELSE {fd}

Repopulate(fd, eaten) ==
    IF eaten # {} THEN generate_food(RemoveEaten(fd, eaten)) ELSE {fd}

\* ------------------------------------------------------------ messages
Msg(event, to, id, ps, fd) ==
    [event |-> event, to |-> to, id |-> id, players |-> ps, food |-> fd]

NoEvents == [joined |-> 0, left |-> 0, eaten |-> 0, over |-> 0]

\* ------------------------------------------------------------ start
Init ==
    /\ players = <<>>
    /\ food \in generate_food(<<>>)
    /\ pc = "sleep"
    /\ players_to_remove = {}
    /\ food_eaten_indices = {}
    /\ remaining = {}
    /\ cur = NoSid
    /\ stage = [food |-> <<>>, moved |-> <<>>, fed |-> <<>>, fought |-> <<>>]
    /\ ate = <<>>
    /\ out = <<>>
    /\ emitted = [s \in Sids |-> NoEvents]
    /\ op = [name |-> "start", sid |-> NoSid]
    /\ nobj = 0
    /\ ncmd = 0
    /\ ticks = 0

\* ------------------------------------------------------------ handlers
\* data.get('name', 'Blob')[:15]
JoinName(data) ==
    LET given == IF data.has_name THEN data.name ELSE Blob
    IN  SubSeq(given, 1, Min(Len(given), NAME_LIMIT))

NewPlayer(sid, data, obj) ==
    [id |-> sid, name |-> JoinName(data), x |-> data.x, y |-> data.y,
     size |-> INITIAL_PLAYER_SIZE * Unit, color |-> data.hue,
     target_x |-> 0, target_y |-> 0, obj |-> obj]

\* handle_join stores the new dict under the sid, whatever was there
Joined(ps, player) == Store(ps, player)

handle_join(sid, data) ==
    /\ ncmd < MaxCmds
    /\ ncmd' = ncmd + 1
    /\ LET player == NewPlayer(sid, data, nobj + 1)
       IN  /\ players' = Joined(players, player)
           /\ out' = << Msg("game_setup", sid, sid, <<>>, <<>>),
                        Msg("current_state", sid, NoSid, players', food),
                        Msg("player_joined", "others", sid, <<player>>, <<>>) >>
    /\ nobj' = nobj + 1
    /\ emitted' = [emitted EXCEPT ![sid].joined = @ + 1]
    /\ op' = [name |-> "join", sid |-> sid]
    /\ UNCHANGED <<food, pc, players_to_remove, food_eaten_indices, remaining, cur,
                   stage, ate, ticks>>

\* handle_player_move creating the entry it does not find
MovedCreating(ps, sid, data) ==
    IF sid \in Ids(ps)
    THEN [i \in DOMAIN ps |->
            IF ps[i].id = sid
            THEN [ps[i] EXCEPT !.target_x = data.x, !.target_y = data.y]
            ELSE ps[i]]
    ELSE Append(ps, [id |-> sid, name |-> <<>>, x |-> 0, y |-> 0, size |-> 0, color |-> 0,
                     target_x |-> data.x, target_y |-> data.y, obj |-> 0])

\* the store after handle_player_move
Moved(ps, sid, data) ==
    IF get_player_by_id(ps, sid) # <<>>
    THEN [i \in DOMAIN ps |->
            IF ps[i].id = sid
            THEN [ps[i] EXCEPT !.target_x = data.x, !.target_y = data.y]
            ELSE ps[i]]
    ELSE ps

handle_player_move(sid, data) ==
    /\ ncmd < MaxCmds
    /\ ncmd' = ncmd + 1
    /\ players' = Moved(players, sid, data)
    /\ out' = <<>>
    /\ op' = [name |-> "player_move", sid |-> sid]
    /\ UNCHANGED <<food, pc, players_to_remove, food_eaten_indices, remaining, cur,
                   stage, ate, emitted, nobj, ticks>>

\* handle_disconnect without the test of the popped value
LeftEventsAlways(popped, sid) == << Msg("player_left", "all", sid, <<>>, <<>>) >>

\* what handle_disconnect emits for the popped value
LeftEvents(popped, sid) ==
    IF popped # <<>> THEN << Msg("player_left", "all", sid, <<>>, <<>>) >> ELSE <<>>

handle_disconnect(sid) ==
    LET player == get_player_by_id(players, sid)
    IN  /\ ncmd < MaxCmds
        /\ ncmd' = ncmd + 1
        /\ players' = Pop(players, sid)
        /\ out' = LeftEvents(player, sid)
        /\ emitted' = [emitted EXCEPT ![sid].left = @ + Len(out')]
        /\ op' = [name |-> "disconnect", sid |-> sid]
        /\ UNCHANGED <<food, pc, players_to_remove, food_eaten_indices, remaining, cur,
                       stage, ate, nobj, ticks>>

\* ------------------------------------------------------------ game loop
\* the iteration that emits player_eaten but leaves the player in the store
\* (the snapshot taken before the removals are applied)
RemoveOneLater(ps, sid, rest) ==
    /\ players' = ps
    /\ remaining' = rest
    /\ cur' = sid
    /\ out' = << Msg("player_eaten", "all", sid, <<>>, <<>>) >>
    /\ emitted' = [emitted EXCEPT ![sid].eaten = @ + 1]
    /\ pc' = "eaten_emitted"
    /\ food' = food

\* Stage 4, one iteration that finds its player: pop, emit player_eaten.
RemoveOne(ps, sid, rest) ==
    /\ players' = Pop(ps, sid)
    /\ remaining' = rest
    /\ cur' = sid
    /\ out' = << Msg("player_eaten", "all", sid, <<>>, <<>>) >>
    /\ emitted' = [emitted EXCEPT ![sid].eaten = @ + 1]
    /\ pc' = "eaten_emitted"
    /\ food' = food

\* Stages 5 and 6: drop the eaten pellets, refill, emit game_update; then sleep.
Finish(ps, eaten) ==
    /\ players' = ps
    /\ \E fd \in Repopulate(food, eaten) :
          /\ food' = fd
          /\ out' = << Msg("game_update", "all", NoSid, ps, fd) >>
    /\ remaining' = {}
    /\ cur' = NoSid
    /\ pc' = "sleep"
    /\ UNCHANGED emitted

\* One iteration of the loop from its top to its first yield: stages 1 to 3,
\* then either the first removal of stage 4 or, with nobody to remove,
\* stages 5 and 6.
Tick ==
    /\ pc = "sleep"
    /\ ticks < MaxTicks
    /\ LET moved == MoveStage(players)
           fs == FoodStage(moved, food)
           cs == PlayerStage(fs.players)
       IN  /\ stage' = [food |-> food, moved |-> moved, fed |-> fs.players,
                        fought |-> cs.players]
           /\ ate' = cs.log
           /\ food_eaten_indices' = fs.eaten
           /\ players_to_remove' = cs.removed
           /\ IF cs.removed = {}
              THEN Finish(cs.players, fs.eaten)
              ELSE \E sid \in cs.removed : RemoveOne(cs.players, sid, cs.removed \ {sid})
    /\ ticks' = ticks + 1
    /\ op' = [name |-> "tick", sid |-> NoSid]
    /\ UNCHANGED <<nobj, ncmd>>

\* Stage 4, after player_eaten: emit game_over to the eaten session.
EmitGameOver ==
    /\ pc = "eaten_emitted"
    /\ out' = << Msg("game_over", cur, cur, <<>>, <<>>) >>
    /\ emitted' = [emitted EXCEPT ![cur].over = @ + 1]
    /\ pc' = "gameover_emitted"
    /\ op' = [name |-> "game_over", sid |-> cur]
    /\ UNCHANGED <<players, food, players_to_remove, food_eaten_indices, remaining, cur,
                   stage, ate, nobj, ncmd, ticks>>

\* players.pop(sid): the ids of sids for which a pop without a default raises
\* KeyError
PopRaisesOnMissing(ps, sids) == sids \ Ids(ps)

\* players.pop(sid, None): the ids of sids for which the pop raises; with the
\* default None it returns None for an id that is not in the store
PopRaises(ps, sids) == {}

\* an exception leaves game_loop: the green thread of the loop is over
Crash ==
    /\ pc' = "crashed"
    /\ out' = <<>>
    /\ UNCHANGED <<players, food, remaining, cur, emitted>>

\* the for loop without the test "if eaten_player": it emits for the next id
\* of the set whether or not the pop found a player
ContinueRemovalNoTest ==
    /\ pc = "gameover_emitted"
    /\ IF remaining = {}
       THEN Finish(players, food_eaten_indices)
       ELSE \E sid \in remaining : RemoveOne(players, sid, remaining \ {sid})
    /\ op' = [name |-> "removal", sid |-> NoSid]
    /\ UNCHANGED <<players_to_remove, food_eaten_indices, stage, ate, nobj, ncmd, ticks>>

\* Stage 4, after game_over: the for loop goes on over the set, in an order
\* the program does not fix.  Ids whose pop finds nothing are passed without
\* a yield; the loop stops at the next id that is in the store, or ends, or
\* is left by the exception of a pop.
ContinueRemoval ==
    /\ pc = "gameover_emitted"
    /\ LET present == remaining \cap Ids(players)
           raising == PopRaises(players, remaining)
       IN  \/ raising # {} /\ Crash
           \/ raising = {} /\ present = {} /\ Finish(players, food_eaten_indices)
           \/ \E sid \in present : \E skipped \in SUBSET ((remaining \ present) \ raising) :
                   RemoveOne(players, sid, remaining \ ({sid} \cup skipped))
    /\ op' = [name |-> "removal", sid |-> NoSid]
    /\ UNCHANGED <<players_to_remove, food_eaten_indices, stage, ate, nobj, ncmd, ticks>>

Next ==
    \/ Tick
    \/ EmitGameOver
    \/ ContinueRemoval
    \/ \E sid \in Sids : \E data \in JoinInputs(sid) : handle_join(sid, data)
    \/ \E sid \in Sids : \E data \in MoveInputs : handle_player_move(sid, data)
    \/ \E sid \in Sids : handle_disconnect(sid)

Spec == Init /\ [][Next]_vars

\* ------------------------------------------------------------ a game under way
\* The sizes a player of the arena has: as it joined, or two pellets later.
ArenaSizes ==
    { INITIAL_PLAYER_SIZE * Unit,
      INITIAL_PLAYER_SIZE * Unit + 2 * FoodGain([size |-> FOOD_SIZE * Unit]) }

\* the orders in which the three sessions may have joined
ArenaOrders ==
    { o \in Sids \X Sids \X Sids : o[1] # o[2] /\ o[1] # o[3] /\ o[2] # o[3] }

\* the player of session sid, joined as the k-th, with the given size
ArenaPlayer(sid, size, k) ==
    [NewPlayer(sid, CHOOSE data \in JoinInputs(sid) : TRUE, k) EXCEPT !.size = size]

\* the food list of the arena: every pellet where the second choice has it
ArenaFood ==
    [i \in 1 .. FOOD_COUNT |-> CHOOSE p \in PelletChoices : p.id = 99999]

\* The state of a server on which the three sessions have joined and some
\* have eaten pellets in earlier ticks, the game loop asleep; ArenaCmds
\* further commands are handled from here.
InitArena ==
    /\ \E o \in ArenaOrders : \E sz \in [Sids -> ArenaSizes] :
          players = << ArenaPlayer(o[1], sz[o[1]], 1),
                       ArenaPlayer(o[2], sz[o[2]], 2),
                       ArenaPlayer(o[3], sz[o[3]], 3) >>
    /\ food = ArenaFood
    /\ pc = "sleep"
    /\ players_to_remove = {}
    /\ food_eaten_indices = {}
    /\ remaining = {}
    /\ cur = NoSid
    /\ stage = [food |-> <<>>, moved |-> <<>>, fed |-> <<>>, fought |-> <<>>]
    /\ ate = <<>>
    /\ out = <<>>
    /\ emitted = [s \in Sids |-> [NoEvents EXCEPT !.joined = 1]]
    /\ op = [name |-> "start", sid |-> NoSid]
    /\ nobj = 3
    /\ ncmd = MaxCmds - ArenaCmds
    /\ ticks = 0

SpecArena == InitArena /\ [][Next]_vars


\* ------------------------------------------------------------ properties
InBounds(p) ==
    /\ p.size <= 2 * p.x /\ 2 * p.x <= 2 * MAP_WIDTH * Unit - p.size
    /\ p.size <= 2 * p.y /\ 2 * p.y <= 2 * MAP_HEIGHT * Unit - p.size

HandlerStep == ncmd' # ncmd

Updates == SelectSeq(out, LAMBDA m : m.event = "game_update")

\* C1: between ticks, and in every game_update snapshot, every live player
\* lies within [size/2, MAP - size/2] on both axes, for its current size.
BoundsInvariant ==
    /\ pc = "sleep" => \A i \in DOMAIN players : InBounds(players[i])
    /\ \A k \in DOMAIN Updates : \A i \in DOMAIN Updates[k].players :
          InBounds(Updates[k].players[i])

\* C2: the size stored under a session id never decreases from one state to
\* the next while the entry is present in both.
MonotonicGrowth ==
    [][\A i \in DOMAIN players : \A j \in DOMAIN players' :
          players[i].id = players'[j].id => players'[j].size >= players[i].size]_vars

\* C3: every consumption "A ate B" of the tick was made with A's size strictly
\* above 1.1 times B's and the centres closer than radiusA - 0.8 radiusB, left
\* A with exactly the sum of the two sizes, and once the removal stage has run
\* the consumed player B is no longer in the store.
EatRatioLaw ==
    \A k \in DOMAIN ate :
        LET a == ate[k].eater_before
            b == ate[k].eaten_before
            dx == a.x - b.x
            dy == a.y - b.y
        IN  /\ 10 * a.size > 11 * b.size
            /\ 5 * a.size - 4 * b.size > 0
            /\ 100 * (dx * dx + dy * dy) < (5 * a.size - 4 * b.size) * (5 * a.size - 4 * b.size)
            /\ ate[k].eater_after.size = a.size + b.size
            /\ pc = "sleep" => \A i \in DOMAIN players : players[i].obj # b.obj

EatRatioWitness ==
    /\ pc = "sleep"
    /\ ate # <<>>
    /\ op.name = "removal"


\* the indices of this tick's food list that were not eaten
Kept == { i \in DOMAIN stage.food : i \notin food_eaten_indices }

\* C4: the food list always holds FOOD_COUNT pellets, and so does every
\* game_update snapshot; once a tick is over, the pellets it ate are gone from
\* the list (the survivors stand first, in their order) and as many new
\* pellets as were eaten follow them.
FoodConservation ==
    /\ Len(food) = FOOD_COUNT
    /\ \A k \in DOMAIN Updates : Len(Updates[k].food) = FOOD_COUNT /\ Updates[k].food = food
    /\ (pc = "sleep" /\ ticks > 0) =>
          /\ \A i \in Kept : food[Cardinality({ j \in Kept : j <= i })] = stage.food[i]
          /\ Len(food) - Cardinality(Kept) = Cardinality(food_eaten_indices)

FoodConservationWitness ==
    /\ pc = "sleep"
    /\ food_eaten_indices # {}
    /\ Updates # <<>>

\* C5: a join for a session id that has a live player leaves the store as it was.
DuplicateJoinRejected ==
    [][(HandlerStep /\ op'.name = "join" /\ op'.sid \in Ids(players))
          => players' = players]_vars

\* C6: a command handler never changes the player store itself (commands take
\* effect only in a step of the game loop), so in particular none takes
\* effect while a tick is under way.
CommandsAppliedByTick ==
    [][HandlerStep => players' = players]_vars

\* C6, its last part alone: no command changes the store while a tick is
\* under way (between its movement stage and its snapshot).
NoCommandDuringTick ==
    [][(HandlerStep /\ pc # "sleep") => players' = players]_vars

\* C7: a disconnect for a session id with a live player removes that entry
\* only and broadcasts exactly one player_left; a disconnect for a session id
\* with no live player (already left, or eaten and removed) changes neither the
\* store nor the events sent.
IdempotentDisconnect ==
    [][(HandlerStep /\ op'.name = "disconnect") =>
          LET sid == op'.sid
          IN  IF sid \in Ids(players)
              THEN /\ Ids(players') = Ids(players) \ {sid}
                   /\ \A i \in DOMAIN players : players[i].id # sid =>
                         \E j \in DOMAIN players' : players'[j] = players[i]
                   /\ Len(out') = 1
                   /\ out'[1].event = "player_left" /\ out'[1].id = sid
                   /\ emitted' = [emitted EXCEPT ![sid].left = @ + 1]
              ELSE /\ players' = players
                   /\ out' = <<>>
                   /\ emitted' = emitted]_vars

\* a second disconnect, without a join in between, has just run
IdempotentDisconnectWitness ==
    /\ op.name = "disconnect"
    /\ out = <<>>
    /\ emitted[op.sid].joined = 1
    /\ emitted[op.sid].left = 1

\* C8: a player_move for a session id with no live player leaves the store
\* unchanged.
StaleMoveIsNoOp ==
    [][(HandlerStep /\ op'.name = "player_move" /\ op'.sid \notin Ids(players))
          => players' = players]_vars

\* a move has just run for a player that was eaten and removed
StaleMoveWitness ==
    /\ op.name = "player_move"
    /\ op.sid \notin Ids(players)
    /\ emitted[op.sid].eaten = 1

\* player k of this tick overlapped pellet i when stage 2 began
Reaches(k, i) == InReach(stage.moved[k].size, stage.moved[k], stage.food[i])

\* C9: each pellet is eaten by one player at most, the first in the order of
\* the store that overlaps it: a player gains 0.2 * FOOD_SIZE for each pellet
\* it is the first to overlap and nothing else, so the size gained in the food
\* stage is 0.2 * FOOD_SIZE for each pellet marked eaten.
PelletEatenOnce ==
    /\ food_eaten_indices \subseteq DOMAIN stage.food
    /\ \A k \in DOMAIN stage.moved :
          10 * (stage.fed[k].size - stage.moved[k].size)
             = 2 * FOOD_SIZE * Unit
                 * Cardinality({ i \in food_eaten_indices :
                                   Reaches(k, i) /\ \A k2 \in 1 .. (k - 1) : ~Reaches(k2, i) })
    /\ 10 * (SumSizes(stage.fed) - SumSizes(stage.moved))
          = 2 * FOOD_SIZE * Unit * Cardinality(food_eaten_indices)

\* two players overlapped a pellet that was eaten
PelletEatenOnceWitness ==
    \E i \in food_eaten_indices : \E k1, k2 \in DOMAIN stage.moved :
        /\ k1 # k2
        /\ Reaches(k1, i)
        /\ Reaches(k2, i)

\* C10: no two pellets of the food list have the same id.
UniquePelletIds ==
    \A i, j \in DOMAIN food : i # j => food[i].id # food[j].id

\* the name the specification wants stored for a join payload
ExpectedName(data) ==
    IF ~data.has_name \/ data.name = <<>>
    THEN Blob
    ELSE SubSeq(data.name, 1, Min(Len(data.name), NAME_LIMIT))

\* C14: a join stores the supplied name cut to at most 15 characters, and
\* stores "Blob" when the payload has no name or an empty one; an empty name is
\* never stored.
NameDefaulted ==
    [][(HandlerStep /\ op'.name = "join") =>
          \E data \in JoinInputs(op'.sid) :
              \A j \in DOMAIN players' :
                  players'[j].id = op'.sid =>
                      /\ players'[j].name = ExpectedName(data)
                      /\ players'[j].name # <<>>]_vars

\* --- the player-consumption pass, read off its log
\* the place in the store (as stage 3 found it) of the player dict obj
IdxOf(obj) == CHOOSE i \in DOMAIN stage.fed : stage.fed[i].obj = obj

EaterOf(k) == IdxOf(ate[k].eater_before.obj)

VictimOf(k) == IdxOf(ate[k].eaten_before.obj)

\* the pair (i, j), i < j, whose comparison was consumption k
PairOf(k) == << Min(EaterOf(k), VictimOf(k)), Max(EaterOf(k), VictimOf(k)) >>

\* the pass visits the pairs in lexicographic order: consumption k came
\* before the comparison of the pair (i, j)
Earlier(k, i, j) == PairOf(k)[1] < i \/ (PairOf(k)[1] = i /\ PairOf(k)[2] < j)

\* the size of player x when the pair (i, j) is compared: its size after the
\* food stage and the size, as it then was, of every player it ate before
RECURSIVE SizeAt(_, _, _)
RECURSIVE GainAt(_, _, _, _)
GainAt(x, i, j, k) ==
    IF k > Len(ate) THEN 0
    ELSE (IF EaterOf(k) = x /\ Earlier(k, i, j)
          THEN SizeAt(VictimOf(k), PairOf(k)[1], PairOf(k)[2])
          ELSE 0) + GainAt(x, i, j, k + 1)

SizeAt(x, i, j) == stage.fed[x].size + GainAt(x, i, j, 1)

AsAt(x, i, j) == [stage.fed[x] EXCEPT !.size = SizeAt(x, i, j)]

GoneAt(x, i, j) == \E k \in DOMAIN ate : VictimOf(k) = x /\ Earlier(k, i, j)

MealOf(e, v) == \E k \in DOMAIN ate : EaterOf(k) = e /\ VictimOf(k) = v

\* C15: every pair comparison of the pass is decided on the sizes the two
\* players have at that comparison, what they ate earlier in the same pass
\* included: the pair (i, j) ends in "i ate j" exactly when both are still
\* there and i, as grown so far, can eat j, and in "j ate i" exactly when
\* that fails and j, as grown so far, can eat i; so a player that has grown
\* in the pass eats players that its size at the start of the pass could not.
ChainConsumption ==
    /\ \A i, j \in DOMAIN stage.fed : i < j =>
          LET a == AsAt(i, i, j)
              b == AsAt(j, i, j)
              both == ~GoneAt(i, i, j) /\ ~GoneAt(j, i, j)
          IN  /\ MealOf(i, j) <=> (both /\ CanEat(a, b))
              /\ MealOf(j, i) <=> (both /\ ~CanEat(a, b) /\ CanEat(b, a))
    /\ \A k \in DOMAIN ate :
          /\ ate[k].eater_before.size = SizeAt(EaterOf(k), PairOf(k)[1], PairOf(k)[2])
          /\ ate[k].eaten_before.size = SizeAt(VictimOf(k), PairOf(k)[1], PairOf(k)[2])

\* a player ate another that it could not have eaten with the sizes the two
\* had when the pass began, after it had grown by eating in the same pass
ChainConsumptionWitness ==
    \E k \in DOMAIN ate :
        /\ ate[k].eater_before.size > stage.fed[EaterOf(k)].size
        /\ ~CanEat(stage.fed[EaterOf(k)], stage.fed[VictimOf(k)])

\* C16: a player marked removed in the player-consumption pass is out of the
\* pass from then on, whichever member of the pair it was: it is in no later
\* consumption, as eater or as eaten, and it leaves the pass with the size it
\* had when it was eaten.  The marked players are those the log shows eaten.
RemovedIsInert ==
    /\ \A k, m \in DOMAIN ate :
          k < m => /\ ate[m].eater_before.obj # ate[k].eaten_before.obj
                   /\ ate[m].eaten_before.obj # ate[k].eaten_before.obj
    /\ \A k \in DOMAIN ate :
          /\ stage.fought[VictimOf(k)].size = ate[k].eaten_before.size
          /\ stage.fought[VictimOf(k)].id \in players_to_remove
    /\ Cardinality(players_to_remove) = Len(ate)

\* in one pass a player was eaten as the first member of its pair, with
\* players after its partner still to come, and another as the second member
RemovedIsInertWitness ==
    \E k1, k2 \in DOMAIN ate :
        /\ VictimOf(k1) < EaterOf(k1)
        /\ EaterOf(k1) < Len(stage.fed)
        /\ VictimOf(k2) > EaterOf(k2)

\* the players of this tick that the player-consumption pass did not mark
Survivors == SelectSeq(stage.fought, LAMBDA p : p.id \notin players_to_remove)

\* C18: the player-consumption pass conserves size: the players it leaves
\* unmarked weigh together what all the players weighed when it began; each
\* marked player is eaten in exactly one consumption, which adds its whole
\* size to the eater; and when the removal stage is over the survivors still
\* in the store have the sizes the pass left them with.
SizeConservation ==
    /\ SumSizes(Survivors) = SumSizes(stage.fed)
    /\ \A x \in DOMAIN stage.fought :
          stage.fought[x].id \in players_to_remove =>
              Cardinality({ k \in DOMAIN ate : VictimOf(k) = x }) = 1
    /\ \A k \in DOMAIN ate :
          /\ stage.fought[VictimOf(k)].id \in players_to_remove
          /\ ate[k].eater_after.size = ate[k].eater_before.size + ate[k].eaten_before.size
    /\ (pc = "sleep" /\ op.name \in {"tick", "removal"}) =>
          \A i \in DOMAIN players : \A x \in DOMAIN stage.fought :
              players[i].obj = stage.fought[x].obj =>
                  /\ players[i].size = stage.fought[x].size
                  /\ players[i].id \notin players_to_remove

\* a tick in which two players were eaten is over, its snapshot sent
SizeConservationWitness ==
    /\ pc = "sleep"
    /\ op.name = "removal"
    /\ Len(ate) >= 2
    /\ Updates # <<>>

\* C20: in the food stage a player's reach is fixed by the size it has when
\* the stage begins: a pellet is eaten only if some player's centre is nearer
\* to it than that size / 2 - FOOD_SIZE / 3, whatever the player has grown to
\* by eating other pellets in the same stage; so no player gains more than
\* 0.2 * FOOD_SIZE for each eaten pellet within that reach.
ReachFixedAtStageStart ==
    /\ \A i \in food_eaten_indices : \E k \in DOMAIN stage.moved : Reaches(k, i)
    /\ \A k \in DOMAIN stage.moved :
          10 * (stage.fed[k].size - stage.moved[k].size)
             <= 2 * FOOD_SIZE * Unit
                   * Cardinality({ i \in food_eaten_indices : Reaches(k, i) })

\* a pellet was left although a player that grew in the stage would reach it
\* with the size it has grown to
ReachFixedWitness ==
    \E k \in DOMAIN stage.moved : \E i \in DOMAIN stage.food :
        /\ i \notin food_eaten_indices
        /\ stage.fed[k].size > stage.moved[k].size
        /\ InReach(stage.fed[k].size, stage.fed[k], stage.food[i])

\* --- what a payload handed to emit refers to
\* list(players.values()) is a new list of the player dicts themselves, not
\* of copies: what the list ps of a payload shows once the store is `store` is,
\* for each dict still in the store, that dict as it now is (a dict taken out
\* of the store is not written again).
PlayersSeenLater(ps, store) ==
    [k \in DOMAIN ps |->
        IF \E i \in DOMAIN store : store[i].obj = ps[k].obj
        THEN store[CHOOSE i \in DOMAIN store : store[i].obj = ps[k].obj]
        ELSE ps[k]]

\* 'food': food hands out the list food itself, which the loop changes in
\* place (food[:] = ..., food.append): the payload shows the list as it now is.
FoodSeenLater(fd, list) == list

Snapshots == SelectSeq(out, LAMBDA m : m.event \in {"game_update", "current_state"})

\* C11: the players and the food of a game_update or current_state message
\* are value copies: whatever the next step of the program does to the store,
\* they show afterwards what they showed when they were handed out.
SnapshotsAreCopies ==
    [][\A k \in DOMAIN Snapshots :
          /\ PlayersSeenLater(Snapshots[k].players, players') = Snapshots[k].players
          /\ FoodSeenLater(Snapshots[k].food, food') = Snapshots[k].food]_vars

\* C12: when the removal stage of a tick is over, every player that the
\* player-consumption pass of the tick marked is out of the store (the session
\* may have joined again, as a new player), and exactly
\* one player_eaten (to all) and one game_over (to its session) went out for
\* it, whatever handlers ran between the emits of the stage.  The counters run
\* over the whole run, so the statement is made of its first tick.
EveryMarkedPlayerEaten ==
    (pc = "sleep" /\ ticks = 1 /\ op.name \in {"tick", "removal"}) =>
        /\ \A k \in DOMAIN ate : \A i \in DOMAIN players :
              players[i].obj # ate[k].eaten_before.obj
        /\ \A sid \in players_to_remove :
              /\ emitted[sid].eaten = 1
              /\ emitted[sid].over = 1

\* C13: the snapshot of a tick is taken after all the other stages of the
\* tick: its players are as the movement and the two consumption stages left
\* them, none of them is a player consumed in the tick, its food list has the
\* pellets the tick did not eat, in their order, followed by the pellets the
\* repopulation added in place of the eaten ones, and a tick sends one
\* game_update.
SnapshotAfterAllStages ==
    /\ Len(Updates) <= 1
    /\ \A u \in DOMAIN Updates :
          /\ \A i \in DOMAIN Updates[u].players :
                /\ \A k \in DOMAIN ate :
                      Updates[u].players[i].obj # ate[k].eaten_before.obj
                /\ \A x \in DOMAIN stage.fought :
                      stage.fought[x].obj = Updates[u].players[i].obj =>
                          /\ Updates[u].players[i].x = stage.fought[x].x
                          /\ Updates[u].players[i].y = stage.fought[x].y
                          /\ Updates[u].players[i].size = stage.fought[x].size
          /\ Len(Updates[u].food) = Len(stage.food)
          /\ \A i \in DOMAIN stage.food :
                i \notin food_eaten_indices =>
                    Updates[u].food[Cardinality({ j \in 1 .. i : j \notin food_eaten_indices })]
                       = stage.food[i]

\* the snapshot of a tick in which a pellet and a player were eaten
SnapshotAfterAllStagesWitness ==
    /\ Updates # <<>>
    /\ ate # <<>>
    /\ food_eaten_indices # {}

\* C19: every terminal event goes to a player entry of its own.  A step that
\* sends a player_left or a player_eaten for a session sends one of the two,
\* once, and takes that session's entry out of the store; an entry taken out
\* never comes back (a later join makes a new one); and a game_over is sent
\* only after a player_eaten for the same session that has had none yet.  So
\* no entry gets both a player_left and a player_eaten with its game_over.
OneTerminalEvent ==
    [][/\ \A sid \in Sids :
            (emitted'[sid].left # emitted[sid].left \/ emitted'[sid].eaten # emitted[sid].eaten) =>
                /\ emitted'[sid].left + emitted'[sid].eaten
                      = emitted[sid].left + emitted[sid].eaten + 1
                /\ \E i \in DOMAIN players :
                      /\ players[i].id = sid
                      /\ \A j \in DOMAIN players' : players'[j].obj # players[i].obj
       /\ \A j \in DOMAIN players' :
            \/ \E i \in DOMAIN players : players[i].obj = players'[j].obj
            \/ players'[j].obj > nobj
       /\ \A sid \in Sids :
            emitted'[sid].over # emitted[sid].over =>
                /\ emitted'[sid].over = emitted[sid].over + 1
                /\ emitted[sid].over < emitted[sid].eaten
                /\ emitted'[sid].left = emitted[sid].left]_vars

\* a tick is over in which a marked player disconnected before the removal
\* stage reached it: it got a player_left and no player_eaten
OneTerminalEventWitness ==
    /\ pc = "sleep"
    /\ op.name = "removal"
    /\ \E sid \in players_to_remove :
          /\ emitted[sid].left = 1
          /\ emitted[sid].eaten = 0
          /\ emitted[sid].over = 0

\* C17: whatever handlers run at the yields of the game loop, the loop is
\* never left by an exception, not even when the removal stage comes to an id
\* that is no longer in the store; at each yield inside a tick its next step is
\* possible; and each step of the removal stage either ends the tick with its
\* game_update or leaves fewer ids to handle, so the tick comes to its snapshot.
LoopNeverFails ==
    /\ [](pc # "crashed")
    /\ [](pc = "eaten_emitted" => ENABLED EmitGameOver)
    /\ [](pc = "gameover_emitted" => ENABLED ContinueRemoval)
    /\ [][(pc = "gameover_emitted" /\ pc' # pc) =>
             \/ pc' = "sleep" /\ Len(SelectSeq(out', LAMBDA m : m.event = "game_update")) = 1
             \/ pc' = "eaten_emitted" /\ Cardinality(remaining') < Cardinality(remaining)]_vars

\* the removal stage has come to the id of a player that had left the store
\* meanwhile, and the tick has ended with its snapshot
LoopNeverFailsWitness ==
    /\ pc = "sleep"
    /\ Updates # <<>>
    /\ \E sid \in players_to_remove : emitted[sid].eaten = 0

=============================================================================
